---- MODULE Spec2Model ----
(***************************************************************************)
(* Model of fraction_visualizer_streamlit.py: the expression parser, the   *)
(* number theory helpers and the "Solve" pipeline of main().               *)
(*                                                                         *)
(* A Python string is a sequence of one-character strings.  A dict is a    *)
(* sequence of <<key, value>> pairs in insertion order.  A parsed term     *)
(* (a Python tuple) is a record [num, den]; a parsed operator (a Python    *)
(* str) is a record [op].                                                  *)
(***************************************************************************)
EXTENDS Integers, Sequences, FiniteSets, TLC

VARIABLES
    expression,      \* the text of the input box (main, line 112)
    pc,              \* "input" | "done" | "error": position of the Solve handler
    parts,           \* value returned by parse_expression (line 122)
    error,           \* str(e) of the exception caught at line 204, or <<>>
    parse_local,     \* the list local to parse_expression when it ended
    fractions, operators, denominators, lcd, converted_nums,
    factor_lines,    \* prime_factors(d) for each denominator (line 153)
    all_factors,     \* merged factor table (lines 155-172)
    result,          \* accumulated numerator (lines 185-192)
    common_divisor,  \* gcd(result, lcd) (line 198)
    simplified,      \* <<num, den>> shown at line 200, or <<>> (line 202)
    pf,              \* activation record of one prime_factors call
    lcd_args,        \* argument of one compute_lcd call
    lcd_ret          \* its return value, or <<>> before the call

vars == <<expression, pc, parts, error, parse_local, fractions, operators, denominators,
          lcd, converted_nums, factor_lines, all_factors, result,
          common_divisor, simplified, pf, lcd_args, lcd_ret>>

solveVars == <<expression, pc, parts, error, parse_local, fractions, operators,
               denominators, lcd, converted_nums, factor_lines, all_factors,
               result, common_divisor, simplified>>

----------------------------------------------------------------------------
(* Bounds *)

\* longest input string enumerated character by character
MaxLen == 6
\* largest numerator of a generated three-fraction expression
MaxNum == 1
\* largest denominator of a generated three-fraction expression
MaxDen == 9
\* largest |n| passed to a stand-alone prime_factors call
MaxN == 12
\* cap on the exponent counter of a prime_factors call that never leaves a loop
MaxExp == 5
\* longest argument of a stand-alone compute_lcd call
MaxSeq == 3
\* largest element of a stand-alone compute_lcd argument
MaxElem == 8

\* characters of the enumerated input strings
Alphabet == {"0", "1", "/", "+", "-", " ", "a"}

----------------------------------------------------------------------------
(* Python primitives *)

Digits == <<"0", "1", "2", "3", "4", "5", "6", "7", "8", "9">>

IsDigit(c) == \E k \in 1..10 : Digits[k] = c

DigitVal(c) == (CHOOSE k \in 1..10 : Digits[k] = c) - 1

Abs(x) == IF x < 0 THEN -x ELSE x

\* s[i:j] of Python, 0-based, i <= j <= len(s)
Slice(s, i, j) == [k \in 1..(j - i) |-> s[i + k]]

\* str.replace(" ", "")
RECURSIVE RemoveSpaces(_)
RemoveSpaces(s) ==
    IF s = <<>> THEN <<>>
    ELSE IF Head(s) = " " THEN RemoveSpaces(Tail(s))
         ELSE <<Head(s)>> \o RemoveSpaces(Tail(s))

\* int(s) succeeds: s is a non-empty run of decimal digits.  (int() also takes
\* a sign, surrounding blanks and underscores; a token of parse_expression
\* holds no sign and no space, and the inputs hold no other such character.)
IsIntLiteral(s) == Len(s) >= 1 /\ \A k \in 1..Len(s) : IsDigit(s[k])

\* int(s) for a literal s, leading zeros allowed
RECURSIVE IntOf(_)
IntOf(s) ==
    IF s = <<>> THEN 0
    ELSE 10 * IntOf(SubSeq(s, 1, Len(s) - 1)) + DigitVal(s[Len(s)])

\* str(n) for n >= 0
RECURSIVE StrOf(_)
StrOf(n) ==
    IF n < 10 THEN <<Digits[n + 1]>>
    ELSE StrOf(n \div 10) \o <<Digits[(n % 10) + 1]>>

\* s.split('/')
RECURSIVE SplitSlash(_, _)
SplitSlash(s, cur) ==
    IF s = <<>> THEN <<cur>>
    ELSE IF Head(s) = "/" THEN <<cur>> \o SplitSlash(Tail(s), <<>>)
         ELSE SplitSlash(Tail(s), Append(cur, Head(s)))

\* math.gcd: the non-negative greatest common divisor of |a| and |b|
RECURSIVE Euclid(_, _)
Euclid(a, b) == IF b = 0 THEN a ELSE Euclid(b, a % b)

gcd(a, b) == Euclid(Abs(a), Abs(b))

\* dict.get(k, 0)
RECURSIVE DictGet(_, _)
DictGet(d, k) ==
    IF d = <<>> THEN 0
    ELSE IF Head(d)[1] = k THEN Head(d)[2] ELSE DictGet(Tail(d), k)

DictHas(d, k) == \E x \in 1..Len(d) : d[x][1] = k

\* d[k] = v
DictPut(d, k, v) ==
    IF DictHas(d, k)
    THEN [x \in 1..Len(d) |-> IF d[x][1] = k THEN <<k, v>> ELSE d[x]]
    ELSE Append(d, <<k, v>>)

----------------------------------------------------------------------------
(* prime_factors (lines 11-25), one loop test per step *)

\* the frame on entry: n0 keeps the argument, at is the line about to run
PfEnter(n) ==
    [at |-> "while2", n0 |-> n, n |-> n, i |-> 0, factors |-> <<>>, ret |-> <<>>]

PfIdle ==
    [at |-> "idle", n0 |-> 0, n |-> 0, i |-> 0, factors |-> <<>>, ret |-> <<>>]

\* line 25: "p" when e = 1, "p^e" otherwise, in insertion order
PfFormat(factors) ==
    [x \in 1..Len(factors) |->
        IF factors[x][2] > 1
        THEN StrOf(factors[x][1]) \o <<"^">> \o StrOf(factors[x][2])
        ELSE StrOf(factors[x][1])]

PfStep(f) ==
    CASE f.at = "while2" ->                                    \* line 14
            IF f.n % 2 = 0
            THEN [f EXCEPT !.factors = DictPut(@, 2, DictGet(@, 2) + 1),
                           !.n = @ \div 2]
            ELSE [f EXCEPT !.i = 3, !.at = "outer"]            \* line 17
      [] f.at = "outer" ->                                     \* line 18
            IF f.i * f.i <= f.n
            THEN [f EXCEPT !.at = "inner"]
            ELSE [f EXCEPT !.at = "tail"]
      [] f.at = "inner" ->                                     \* line 19
            IF f.n % f.i = 0
            THEN [f EXCEPT !.factors = DictPut(@, f.i, DictGet(@, f.i) + 1),
                           !.n = @ \div f.i]
            ELSE [f EXCEPT !.i = @ + 2, !.at = "outer"]        \* line 22
      [] f.at = "tail" ->                                      \* lines 23-25
            LET fs == IF f.n > 1 THEN DictPut(f.factors, f.n, 1) ELSE f.factors
            IN  [f EXCEPT !.factors = fs, !.ret = PfFormat(fs), !.at = "return"]
      [] OTHER -> f

RECURSIVE PfRun(_)
PfRun(f) == IF f.at = "return" THEN f ELSE PfRun(PfStep(f))

\* the value of a call that returns (every n >= 1)
prime_factors(n) == PfRun(PfEnter(n)).ret

----------------------------------------------------------------------------
(* lcm (lines 27-29) and compute_lcd (lines 31-33) *)

\* line 29 without the division
lcmProduct(a, b) == a * b

lcm(a, b) == (a * b) \div gcd(a, b)

\* functools.reduce(lcm, denominators) without initial value, non-empty argument
RECURSIVE Reduce(_, _)
Reduce(acc, rest) ==
    IF rest = <<>> THEN acc ELSE Reduce(lcm(acc, Head(rest)), Tail(rest))

compute_lcd(ds) == Reduce(Head(ds), Tail(ds))

----------------------------------------------------------------------------
(* parse_expression (lines 35-77) *)

IsTuple(p) == "num" \in DOMAIN p      \* isinstance(p, tuple)

IsStr(p) == "op" \in DOMAIN p         \* isinstance(p, str)

RECURSIVE Filter(_, _)
Filter(s, keepTuples) ==
    IF s = <<>> THEN <<>>
    ELSE IF IsTuple(Head(s)) = keepTuples
         THEN <<Head(s)>> \o Filter(Tail(s), keepTuples)
         ELSE Filter(Tail(s), keepTuples)

\* lines 47-49: first j >= i with j = len(expr) or expr[j] in '+-'
RECURSIVE TokenEnd(_, _)
TokenEnd(expr, j) ==
    IF j < Len(expr) /\ expr[j + 1] \notin {"+", "-"}
    THEN TokenEnd(expr, j + 1) ELSE j

InvalidLiteral(s) == <<"invalid literal for int() with base 10: '">> \o s \o <<"'">>

\* lines 54-57: num, denom = map(int, fraction.split('/')) and the zero test.
\* map is lazy: unpacking converts the pieces one at a time, and asks for a
\* third piece (converting it) before it reports too many values.
\* Result: <<>> when the unpacking succeeds, else str(e) of the ValueError.
SlashError(pieces) ==
    IF ~IsIntLiteral(pieces[1]) THEN InvalidLiteral(pieces[1])
    ELSE IF ~IsIntLiteral(pieces[2]) THEN InvalidLiteral(pieces[2])
    ELSE IF Len(pieces) > 2
         THEN IF ~IsIntLiteral(pieces[3]) THEN InvalidLiteral(pieces[3])
              ELSE <<"too many values to unpack (expected 2)">>
    ELSE IF IntOf(pieces[2]) = 0 THEN <<"Denominator cannot be zero">>
    ELSE <<>>

\* lines 52-67 with messages that leave the token out
ParseTokenUnnamed(fraction) ==
    IF "/" \in {fraction[k] : k \in 1..Len(fraction)}
    THEN LET pieces == SplitSlash(fraction, <<>>)
             e == SlashError(pieces)
         IN  IF e # <<>>
             THEN [raised |-> TRUE, num |-> 0, den |-> 0,
                   message |-> <<"Invalid fraction: ">> \o e]
             ELSE [raised |-> FALSE, num |-> IntOf(pieces[1]),
                   den |-> IntOf(pieces[2]), message |-> <<>>]
    ELSE IF IsIntLiteral(fraction)
         THEN [raised |-> FALSE, num |-> IntOf(fraction), den |-> 1, message |-> <<>>]
         ELSE [raised |-> TRUE, num |-> 0, den |-> 0, message |-> <<"Invalid number">>]

\* lines 52-67 for one token: the term, or the message of the ValueError
ParseToken(fraction) ==
    IF "/" \in {fraction[k] : k \in 1..Len(fraction)}
    THEN LET pieces == SplitSlash(fraction, <<>>)
             e == SlashError(pieces)
         IN  IF e # <<>>
             THEN [raised |-> TRUE, num |-> 0, den |-> 0,
                   message |-> <<"Invalid fraction '">> \o fraction \o <<"': ">> \o e]
             ELSE [raised |-> FALSE, num |-> IntOf(pieces[1]),
                   den |-> IntOf(pieces[2]), message |-> <<>>]
    ELSE IF IsIntLiteral(fraction)
         THEN [raised |-> FALSE, num |-> IntOf(fraction), den |-> 1, message |-> <<>>]
         ELSE [raised |-> TRUE, num |-> 0, den |-> 0,
               message |-> <<"Invalid number '">> \o fraction \o <<"'">>]

\* line 43: a '+' or '-' is kept only right after a term
KeepsOperator(ps) == ps # <<>> /\ IsTuple(ps[Len(ps)])

\* lines 41-68; i is the 0-based index of the code
RECURSIVE Scan(_, _, _)
Scan(expr, i, ps) ==
    IF ~(i < Len(expr)) THEN [raised |-> FALSE, parts |-> ps, message |-> <<>>]
    ELSE IF expr[i + 1] \in {"+", "-"}
    THEN Scan(expr, i + 1,
              IF KeepsOperator(ps) THEN Append(ps, [op |-> expr[i + 1]]) ELSE ps)
    ELSE LET j == TokenEnd(expr, i)
             fraction == Slice(expr, i, j)
             t == IF fraction # <<>> THEN ParseToken(fraction)
                  ELSE [raised |-> FALSE, num |-> 0, den |-> 0, message |-> <<>>]
         IN  IF t.raised
             THEN [raised |-> TRUE, parts |-> ps, message |-> t.message]
             ELSE Scan(expr, j,
                       IF fraction # <<>>
                       THEN Append(ps, [num |-> t.num, den |-> t.den]) ELSE ps)

\* line 74 with "and" for "or"
WrongArityAnd(fs, os) == Len(fs) # 3 /\ Len(os) # 2

\* line 74 without the test of the operators
WrongArityTermsOnly(fs, os) == Len(fs) # 3

\* line 74 without the test of the terms
WrongArityOpsOnly(fs, os) == Len(os) # 2

\* line 74
WrongArity(fs, os) == Len(fs) # 3 \/ Len(os) # 2

ArityMessage ==
    <<"Need exactly 3 fractions with 2 operators (+ or -) between them">>

\* raised: a ValueError left the function, with this message, and parts is the
\* local list at that moment; otherwise parts is the returned list.
parse_expression(expr) ==
    LET s == Scan(RemoveSpaces(expr), 0, <<>>)
    IN  IF s.raised THEN s
        ELSE IF WrongArity(Filter(s.parts, TRUE), Filter(s.parts, FALSE))
             THEN [raised |-> TRUE, parts |-> s.parts, message |-> ArityMessage]
             ELSE s

----------------------------------------------------------------------------
(* main, the "Solve" handler (lines 120-211) *)

\* lines 161-163: the inner while of the inline factorization
RECURSIVE InlineInner(_, _, _)
InlineInner(n, i, factors) ==
    IF n % i = 0
    THEN InlineInner(n \div i, i, DictPut(factors, i, DictGet(factors, i) + 1))
    ELSE [n |-> n, factors |-> factors]

\* the first trial divisor (line 159) and the increment (line 164)
InlineFirst == 2

InlineIncrement == 2

\* lines 160-166: the outer while and the leftover factor
RECURSIVE InlineOuter(_, _, _)
InlineOuter(n, i, factors) ==
    IF i * i <= n
    THEN LET r == InlineInner(n, i, factors)
         IN  InlineOuter(r.n, i + InlineIncrement, r.factors)
    ELSE IF n > 1 THEN DictPut(factors, n, 1) ELSE factors

\* lines 157-166 for one denominator
InlineFactors(d) == InlineOuter(d, InlineFirst, <<>>)

\* lines 167-172: keep the larger count of each key
RECURSIVE MergeFactors(_, _)
MergeFactors(all, factors) ==
    IF factors = <<>> THEN all
    ELSE LET p == Head(factors)[1]
             cnt == Head(factors)[2]
             next == IF DictHas(all, p)
                     THEN IF cnt > DictGet(all, p) THEN DictPut(all, p, cnt) ELSE all
                     ELSE DictPut(all, p, cnt)
         IN  MergeFactors(next, Tail(factors))

\* lines 155-172
RECURSIVE AllFactors(_, _)
AllFactors(all, ds) ==
    IF ds = <<>> THEN all
    ELSE AllFactors(MergeFactors(all, InlineFactors(Head(ds))), Tail(ds))

\* lines 185-192 without the else branch
RECURSIVE AccumulateAddOnly(_, _, _, _)
AccumulateAddOnly(acc, ops, nums, k) ==
    IF k > Len(ops) THEN acc
    ELSE AccumulateAddOnly(acc + nums[k + 1], ops, nums, k + 1)

\* lines 185-192
RECURSIVE Accumulate(_, _, _, _)
Accumulate(acc, ops, nums, k) ==
    IF k > Len(ops) THEN acc
    ELSE Accumulate(IF ops[k].op = "+" THEN acc + nums[k + 1] ELSE acc - nums[k + 1],
                    ops, nums, k + 1)

\* line 198 with a gcd that takes the sign of its first argument
CommonDivisorSigned(res, l) == IF res < 0 THEN 0 - gcd(res, l) ELSE gcd(res, l)

\* line 198
CommonDivisor(res, l) == gcd(res, l)

\* lines 199-202: the pair shown as simplified, or <<>> for "Cannot be simplified"
Simplify(res, l, cd) ==
    IF cd > 1 THEN <<res \div cd, l \div cd>> ELSE <<>>

\* An exception of the pipeline itself, caught like any other at line 204:
\* str(e), or <<>> when lines 123-202 run through.  A zero denominator divides
\* by zero at line 127 at the latest, a fourth term indexes axes[0, 3] at line
\* 136, and an operator without a term after it indexes converted_nums past
\* its end at line 188.
PipelineError(fs, os) ==
    IF fs = <<>> THEN <<"reduce() of empty iterable with no initial value">>
    ELSE IF \E k \in 1..Len(fs) : fs[k].den = 0
         THEN <<"integer division or modulo by zero">>
    ELSE IF Len(fs) > 3
         THEN <<"index 3 is out of bounds for axis 1 with size 3">>
    ELSE IF Len(os) >= Len(fs) THEN <<"list index out of range">>
    ELSE <<>>

\* The handler binds each local once, in the order of the code.  The locals
\* of a run that ends in the except clause are not kept, parts excepted.
Solve ==
    /\ pc = "input"
    /\ \E r \in {parse_expression(expression)} :                 \* line 122
         /\ parse_local' = r.parts
         /\ IF r.raised
            THEN /\ pc' = "error"                                \* lines 204-205
                 /\ error' = r.message
                 /\ UNCHANGED <<parts, fractions, operators, denominators, lcd,
                                converted_nums, factor_lines, all_factors,
                                result, common_divisor, simplified>>
            ELSE \E fs \in {Filter(r.parts, TRUE)},              \* line 123
                    os \in {Filter(r.parts, FALSE)} :            \* line 124
                 IF PipelineError(fs, os) # <<>>
                 THEN /\ pc' = "error"                           \* lines 204-205
                      /\ error' = PipelineError(fs, os)
                      /\ parts' = r.parts
                      /\ UNCHANGED <<fractions, operators, denominators, lcd,
                                     converted_nums, factor_lines, all_factors,
                                     result, common_divisor, simplified>>
                 ELSE
                 \E ds \in {[k \in 1..Len(fs) |-> fs[k].den]} :  \* line 125
                 \E l \in {compute_lcd(ds)} :                    \* line 126
                 \E cn \in {[k \in 1..Len(fs) |->                \* line 127
                               fs[k].num * (l \div fs[k].den)]} :
                 \E res \in {Accumulate(cn[1], os, cn, 1)} :     \* lines 185-192
                 \E cd \in {CommonDivisor(res, l)} :             \* line 198
                   /\ pc' = "done"
                   /\ parts' = r.parts
                   /\ fractions' = fs
                   /\ operators' = os
                   /\ denominators' = ds
                   /\ lcd' = l
                   /\ converted_nums' = cn
                   /\ factor_lines' = [k \in 1..Len(ds) |-> prime_factors(ds[k])]
                   /\ all_factors' = AllFactors(<<>>, ds)
                   /\ result' = res
                   /\ common_divisor' = cd
                   /\ simplified' = Simplify(res, l, cd)
                   /\ UNCHANGED error
    /\ UNCHANGED <<expression, pf, lcd_args, lcd_ret>>

----------------------------------------------------------------------------
(* Stand-alone calls of prime_factors and compute_lcd *)

PfCall ==
    /\ pf.at = "idle"
    /\ \E n \in (0 - MaxN)..MaxN : pf' = PfEnter(n)
    /\ UNCHANGED <<solveVars, lcd_args, lcd_ret>>

\* one loop test or the return; the exponent counters are capped at MaxExp
PfAdvance ==
    /\ pf.at \notin {"idle", "return"}
    /\ \A x \in 1..Len(pf.factors) : pf.factors[x][2] < MaxExp
    /\ pf' = PfStep(pf)
    /\ UNCHANGED <<solveVars, lcd_args, lcd_ret>>

LcdCall ==
    /\ lcd_ret = <<>>
    /\ lcd_ret' = <<compute_lcd(lcd_args)>>
    /\ UNCHANGED <<solveVars, pf, lcd_args>>

----------------------------------------------------------------------------
(* Specifications *)

\* str(n) + "/" + str(d)
FractionText(n, d) == StrOf(n) \o <<"/">> \o StrOf(d)

\* the expression "n1/d1 o1 n2/d2 o2 n3/d3", written without spaces
FractionExpression(n, d, o) ==
    FractionText(n[1], d[1]) \o <<o[1]>> \o FractionText(n[2], d[2])
        \o <<o[2]>> \o FractionText(n[3], d[3])

Unset ==
    /\ pc = "input"
    /\ parts = <<>>
    /\ error = <<>>
    /\ parse_local = <<>>
    /\ fractions = <<>>
    /\ operators = <<>>
    /\ denominators = <<>>
    /\ lcd = 0
    /\ converted_nums = <<>>
    /\ factor_lines = <<>>
    /\ all_factors = <<>>
    /\ result = 0
    /\ common_divisor = 0
    /\ simplified = <<>>

\* every string of at most MaxLen characters of Alphabet
Init ==
    /\ \E len \in 0..MaxLen : expression \in [1..len -> Alphabet]
    /\ Unset
    /\ pf = PfIdle
    /\ lcd_args = <<1>>
    /\ lcd_ret = <<>>

\* every three-fraction expression with small numbers, zero denominators included
InitSolve ==
    /\ \E n \in [1..3 -> 0..MaxNum], d \in [1..3 -> 0..MaxDen],
          o \in [1..2 -> {"+", "-"}] : expression = FractionExpression(n, d, o)
    /\ Unset
    /\ pf = PfIdle
    /\ lcd_args = <<1>>
    /\ lcd_ret = <<>>

InitPf ==
    /\ expression = <<>>
    /\ Unset
    /\ pf = PfIdle
    /\ lcd_args = <<1>>
    /\ lcd_ret = <<>>

InitLcd ==
    /\ expression = <<>>
    /\ Unset
    /\ pf = PfIdle
    /\ lcd_args \in UNION {[1..n -> 1..MaxElem] : n \in 1..MaxSeq}
    /\ lcd_ret = <<>>

Next == Solve

NextPf == PfCall \/ PfAdvance

NextLcd == LcdCall

Spec == Init /\ [][Next]_vars

SpecAll == (Init \/ InitSolve) /\ [][Next]_vars

SpecSolve == InitSolve /\ [][Next]_vars

SpecPf == InitPf /\ [][NextPf]_vars

SpecLcd == InitLcd /\ [][NextLcd]_vars

----------------------------------------------------------------------------
(* The input as the claims read it *)

IsOpChar(c) == c \in {"+", "-"}

\* the input without its spaces
Stripped == SelectSeq(expression, LAMBDA c : c # " ")

\* a token is a maximal run of characters other than '+' and '-'
TokenStarts(e) ==
    {k \in 1..Len(e) : ~IsOpChar(e[k]) /\ (k = 1 \/ IsOpChar(e[k - 1]))}

TokenLast(e, k) ==
    CHOOSE m \in k..Len(e) :
        /\ \A x \in k..m : ~IsOpChar(e[x])
        /\ (m = Len(e) \/ IsOpChar(e[m + 1]))

TokenAt(e, k) == SubSeq(e, k, TokenLast(e, k))

IsINT(t) == t # <<>> /\ \A x \in 1..Len(t) : t[x] \in {Digits[y] : y \in 1..10}

IsZero(t) == \A x \in 1..Len(t) : t[x] = "0"

\* INT or INT '/' INT
IsGrammarTerm(t) ==
    \/ IsINT(t)
    \/ \E x \in 1..Len(t) :
          /\ t[x] = "/"
          /\ IsINT(SubSeq(t, 1, x - 1))
          /\ IsINT(SubSeq(t, x + 1, Len(t)))

\* a grammar term whose denominator, when written, is not zero
IsValidToken(t) ==
    \/ IsINT(t)
    \/ \E x \in 1..Len(t) :
          /\ t[x] = "/"
          /\ IsINT(SubSeq(t, 1, x - 1))
          /\ IsINT(SubSeq(t, x + 1, Len(t)))
          /\ ~IsZero(SubSeq(t, x + 1, Len(t)))

InvalidStarts(e) == {k \in TokenStarts(e) : ~IsValidToken(TokenAt(e, k))}

AllTokensValid(e) == InvalidStarts(e) = {}

Least(S) == CHOOSE k \in S : \A x \in S : k <= x

\* the '+' and '-' characters that directly follow a token
SeparatorCount(e) == Cardinality({k \in 2..Len(e) : IsOpChar(e[k]) /\ ~IsOpChar(e[k - 1])})

TermCount(e) == Cardinality(TokenStarts(e))

\* term (('+' | '-') term){2}
MatchesGrammar(e) ==
    \E a \in 2..Len(e), b \in 4..Len(e) :
        /\ a + 1 < b /\ b < Len(e)
        /\ IsOpChar(e[a]) /\ IsOpChar(e[b])
        /\ IsGrammarTerm(SubSeq(e, 1, a - 1))
        /\ IsGrammarTerm(SubSeq(e, a + 1, b - 1))
        /\ IsGrammarTerm(SubSeq(e, b + 1, Len(e)))

Recorded(ps, tuples) == Cardinality({k \in 1..Len(ps) : IsTuple(ps[k]) = tuples})

\* the message quotes tok right after its first piece
Names(msg, tok) ==
    /\ Len(msg) >= Len(tok) + 2
    /\ SubSeq(msg, 2, Len(tok) + 1) = tok
    /\ msg[Len(tok) + 2] \in {"'", "': "}

Divides(a, b) == b % a = 0

Coprime(a, b) == \A h \in 2..(IF a < b THEN a ELSE b) : ~(Divides(h, a) /\ Divides(h, b))

IsPrime(p) == p >= 2 /\ \A h \in 2..(p - 1) : ~Divides(h, p)

RECURSIVE Power(_, _)
Power(p, e) == IF e = 0 THEN 1 ELSE p * Power(p, e - 1)

\* the exponent of p in d >= 1
RECURSIVE ExponentIn(_, _)
ExponentIn(p, d) == IF Divides(p, d) THEN 1 + ExponentIn(p, d \div p) ELSE 0

RECURSIVE Product(_)
Product(table) ==
    IF table = <<>> THEN 1
    ELSE Power(Head(table)[1], Head(table)[2]) * Product(Tail(table))

----------------------------------------------------------------------------
(* C1 *)

\* C1: when every token of the input is a valid term, parse_expression returns
\* its list exactly when it recorded 3 terms and 2 operators, and otherwise
\* raises the arity error and returns nothing.
C1_ArityDecides ==
    (pc # "input") =>
        \A e \in {Stripped} :
            AllTokensValid(e) =>
                IF Recorded(parse_local, TRUE) = 3 /\ Recorded(parse_local, FALSE) = 2
                THEN pc = "done" /\ parts = parse_local /\ error = <<>>
                ELSE pc = "error" /\ error = ArityMessage /\ parts = <<>>

\* an input of valid tokens with a trailing operator after the third term
C1_Witness ==
    /\ pc = "error" /\ error = ArityMessage /\ AllTokensValid(Stripped)
    /\ Recorded(parse_local, TRUE) = 3 /\ Recorded(parse_local, FALSE) = 3

----------------------------------------------------------------------------
(* C2 *)

\* C2: when the input holds an invalid token, parse_expression raises an error
\* whose message quotes the first such token, which is the one the scan
\* reaches, and the list holds the terms before that token and no term for it.
C2_NamesOffendingToken ==
    (pc # "input") =>
        \A e \in {Stripped} : \A invalid \in {InvalidStarts(e)} :
            (invalid # {}) =>
                \A k \in {Least(invalid)} :
                    /\ pc = "error"
                    /\ parts = <<>>
                    /\ error # ArityMessage
                    /\ Names(error, TokenAt(e, k))
                    /\ Recorded(parse_local, TRUE) =
                           Cardinality({x \in TokenStarts(e) : x < k})

\* a zero denominator met after a valid term
C2_Witness ==
    /\ pc = "error" /\ ~AllTokensValid(Stripped)
    /\ Recorded(parse_local, TRUE) >= 1
    /\ error[Len(error)] = "Denominator cannot be zero"

----------------------------------------------------------------------------
(* C5 *)

\* C5: a list that parse_expression returned is term, operator, term,
\* operator, term; its operators are '+' or '-' and its terms have a
\* denominator of at least 1; the pipeline runs on such a list and on nothing
\* else.
C5_ReturnedShape ==
    /\ (parts # <<>>) =>
          /\ Len(parts) = 5
          /\ \A k \in {1, 3, 5} :
                IsTuple(parts[k]) /\ parts[k].num \in Nat /\ parts[k].den \in Nat \ {0}
          /\ \A k \in {2, 4} : IsStr(parts[k]) /\ parts[k].op \in {"+", "-"}
          /\ pc = "done"
          /\ fractions = <<parts[1], parts[3], parts[5]>>
          /\ operators = <<parts[2], parts[4]>>
    /\ (pc = "done") => parts # <<>>

\* a returned list with a denominator that was written in the input
C5_Witness ==
    /\ pc = "done"
    /\ \E k \in 1..Len(parts) : IsTuple(parts[k]) /\ parts[k].den > 1

----------------------------------------------------------------------------
(* C6 *)

\* C6: every input that parse_expression accepts matches, once its spaces are
\* removed, the grammar term (('+' | '-') term){2}; an input with a leading
\* sign or with two operator characters in a row is rejected.
C6_AcceptsOnlyGrammar == (pc = "done") => MatchesGrammar(Stripped)

----------------------------------------------------------------------------
(* C7 *)

\* C7 as stated: an input whose count of terms is not 3 or whose count of
\* operators is not 2 fails with the arity error, whatever its tokens are.
C7_ArityDominates ==
    (pc # "input") =>
        \A e \in {Stripped} :
            (TermCount(e) # 3 \/ SeparatorCount(e) # 2) =>
                pc = "error" /\ error = ArityMessage

\* C7 amended: such an input always fails, with the arity error exactly when
\* all its tokens are valid, and with the error of its first invalid token
\* otherwise.
C7_ArityAfterTokens ==
    (pc # "input") =>
        \A e \in {Stripped} : \A invalid \in {InvalidStarts(e)} :
            (TermCount(e) # 3 \/ SeparatorCount(e) # 2) =>
                /\ pc = "error"
                /\ (error = ArityMessage) <=> (invalid = {})
                /\ (invalid # {}) => Names(error, TokenAt(e, Least(invalid)))

\* an input with too few terms, one of them invalid
C7_Witness ==
    /\ pc = "error" /\ error # ArityMessage
    /\ TermCount(Stripped) = 2 /\ SeparatorCount(Stripped) = 1

----------------------------------------------------------------------------
(* C3 *)

Signed(o, x) == IF o.op = "+" THEN x ELSE 0 - x

\* C3: the LCD is a multiple of every denominator, the result is the converted
\* numerators combined left to right, and result / lcd is the exact value of
\* the expression.
C3_ExactValue ==
    (pc = "done") =>
        LET n == [k \in 1..3 |-> fractions[k].num]
            d == [k \in 1..3 |-> fractions[k].den]
        IN  /\ \A k \in 1..3 :
                  /\ Divides(d[k], lcd)
                  /\ converted_nums[k] * d[k] = n[k] * lcd
            /\ result = converted_nums[1] + Signed(operators[1], converted_nums[2])
                            + Signed(operators[2], converted_nums[3])
            /\ result * d[1] * d[2] * d[3] =
                   lcd * (n[1] * d[2] * d[3]
                          + Signed(operators[1], n[2] * d[1] * d[3])
                          + Signed(operators[2], n[3] * d[1] * d[2]))

\* 1/6 - 1/3 + 1/9 = -1/18
C3_Witness ==
    /\ pc = "done" /\ denominators = <<6, 3, 9>> /\ lcd = 18 /\ result = 0 - 1
    /\ operators[1].op = "-" /\ operators[2].op = "+"

----------------------------------------------------------------------------
(* C4 *)

\* g is the greatest common divisor of a >= 0 and b >= 1
IsGreatestCommonDivisor(g, a, b) ==
    /\ g >= 1 /\ Divides(g, a) /\ Divides(g, b)
    /\ Coprime(a \div g, b \div g) \/ a = 0

\* C4: the divisor is the positive gcd(|result|, lcd); a shown simplified
\* fraction has a positive denominator, the value of result / lcd and lowest
\* terms; "cannot be simplified" is shown only when that gcd is 1.
C4_Simplification ==
    (pc = "done") =>
        /\ IsGreatestCommonDivisor(common_divisor, Abs(result), lcd)
        /\ (result = 0) => common_divisor = lcd
        /\ IF common_divisor > 1
           THEN /\ Len(simplified) = 2
                /\ simplified[2] > 0
                /\ simplified[1] * lcd = result * simplified[2]
                /\ Coprime(Abs(simplified[1]), simplified[2])
                /\ (simplified[1] = 0) => simplified[2] = 1
           ELSE /\ simplified = <<>>
                /\ Coprime(Abs(result), lcd)
                /\ (result = 0) => lcd = 1

\* a negative result that simplifies
C4_Witness ==
    /\ pc = "done" /\ result < 0 /\ common_divisor > 1
    /\ Len(simplified) = 2 /\ simplified[1] < 0

----------------------------------------------------------------------------
(* C8 *)

\* C8: the keys of the merged factor table are primes, each with the highest
\* exponent it has in a denominator, and the product of the table is the LCD
\* printed next to it.
C8_FactorTable ==
    (pc = "done") =>
        /\ \A x \in 1..Len(all_factors) :
              LET p == all_factors[x][1]
                  cnt == all_factors[x][2]
              IN  /\ IsPrime(p)
                  /\ \A k \in 1..3 : ExponentIn(p, denominators[k]) <= cnt
                  /\ \E k \in 1..3 : ExponentIn(p, denominators[k]) = cnt
        /\ Product(all_factors) = lcd

----------------------------------------------------------------------------
(* C9 *)

IsPermutation(f, n) == \A x \in 1..n : \E y \in 1..n : f[y] = x

\* C9: compute_lcd returns the least positive integer that every element
\* divides; for one element it is that element, and no reordering of the
\* argument changes it.
C9_LeastCommonMultiple ==
    (lcd_ret # <<>>) =>
        LET l == lcd_ret[1]
            n == Len(lcd_args)
        IN  /\ l >= 1
            /\ \A k \in 1..n : Divides(lcd_args[k], l)
            /\ \A m \in 1..(l - 1) : \E k \in 1..n : ~Divides(lcd_args[k], m)
            /\ (n = 1) => l = lcd_args[1]
            /\ \A f \in [1..n -> 1..n] :
                  IsPermutation(f, n) =>
                      compute_lcd([k \in 1..n |-> lcd_args[f[k]]]) = l

\* three elements with common factors: the LCD is below their product
C9_Witness ==
    /\ lcd_ret # <<>> /\ lcd_args = <<4, 6, 8>> /\ lcd_ret[1] = 24

----------------------------------------------------------------------------
(* C10 *)

\* C10: prime_factors returns a factorization only for n >= 1, the empty one
\* for n = 1, and never one for n <= 0.
C10_RejectsNonPositive ==
    (pf.at = "return") => pf.n0 >= 1 /\ (pf.n0 = 1 => pf.ret = <<>>)

====
